---------------------------- MODULE Spec2Model ----------------------------
(***************************************************************************)
(* Exact rational numbers (fun::Fraction<Z>) of luk036/proj-geom-cpp.      *)
(*                                                                         *)
(* Two variants of the type exist in the repository:                       *)
(*   - src/unnamed/part_000: gcd-factored comparison and arithmetic,       *)
(*     normalize() fixes the sign first (definitions without suffix);      *)
(*   - src/include/projgeom/fractions.hpp: plain cross-multiplication,     *)
(*     normalize() fixes the sign last (definitions ending in _hpp).       *)
(*                                                                         *)
(* Z is modelled by the mathematical integers: the claims exclude integer  *)
(* overflow.  C++ `/` and `%` truncate toward zero and are modelled by     *)
(* TruncDiv and TruncRem.  A Fraction object is the record [num, den].     *)
(*                                                                         *)
(* The state machine is a client that owns one Fraction object `a` and     *)
(* runs one statement per step: a constructor, an in-place operator on     *)
(* `a`, or an expression over `a` and freshly constructed operands whose   *)
(* results are kept in `r` (Fractions) and `t` (booleans) until the        *)
(* statement ends.                                                         *)
(***************************************************************************)
EXTENDS Integers, Sequences, FiniteSets, TLC

\* Bounds of the model.
MaxInt == 6    \* constructor arguments and integer operands are in -MaxInt..MaxInt
MaxVal == 5    \* operators are called on `a` only while |a.num|, |a.den| <= MaxVal
MaxK == 2      \* arguments of the third operand of a three-operand statement
MaxGcd == 12   \* gcd is called with arguments in -MaxGcd..MaxGcd

Ints == (-MaxInt)..MaxInt
SmallInts == (-MaxK)..MaxK

VARIABLES
    a,      \* the client's Fraction object
    pc,     \* "ready": before a statement; "returned": a statement has just run;
            \* "fault": the statement divided by zero (undefined behaviour)
    op,     \* name of the statement that has just run
    x,      \* value of `a` when the statement started (constructor: its raw arguments)
    y,      \* the Fraction operand of the statement
    z,      \* the second Fraction operand (three-operand statements)
    k,      \* the integer operand of the statement
    r,      \* the Fractions the statement's expressions returned, in order
    t,      \* the booleans the statement's expressions returned, in order
    dv,     \* the divisors of the integer / and % the statement evaluated
    br,     \* the branches operator==, <, + and += took on their denominators
    w       \* the integers the statement computed: see StatementIntegers

vars == <<a, pc, op, x, y, z, k, r, t, dv, br, w>>

Frac(n, d) == [num |-> n, den |-> d]

----------------------------------------------------------------------------
(* Integer operations *)

abs(m) == IF m < 0 THEN -m ELSE m

\* C++ integer division: the quotient truncated toward zero (n # 0).
TruncDiv(m, n) ==
    LET q == abs(m) \div abs(n)
    IN  IF (m < 0) # (n < 0) THEN -q ELSE q

\* C++ remainder: the sign follows the dividend (n # 0).
TruncRem(m, n) == m - n * TruncDiv(m, n)

RECURSIVE gcd_recur(_, _)
gcd_recur(m, n) ==
    IF n = 0 THEN abs(m) ELSE gcd_recur(n, TruncRem(m, n))

\* Mutant of gcd: the early return gives n itself.
gcd_no_abs(m, n) == IF m = 0 THEN n ELSE gcd_recur(m, n)

gcd(m, n) == IF m = 0 THEN abs(n) ELSE gcd_recur(m, n)

----------------------------------------------------------------------------
(* Fraction of src/unnamed/part_000: construction *)

normalize(f) ==
    LET s == IF f.den < 0 THEN Frac(-f.num, -f.den) ELSE f
        common == gcd(s.num, s.den)
    IN  IF common = 1 \/ common = 0
        THEN s
        ELSE Frac(TruncDiv(s.num, common), TruncDiv(s.den, common))

Fraction(num, den) == normalize(Frac(num, den))

FractionZ(num) == Frac(num, 1)

Fraction0 == Frac(0, 1)

----------------------------------------------------------------------------
(* Fraction of src/include/projgeom/fractions.hpp: construction.  Its abs, *)
(* gcd_recur and gcd are the ones above, word for word.                    *)

normalize_hpp(f) ==
    LET common == gcd(f.num, f.den)
    IN  IF common = 1 \/ common = 0
        THEN f
        ELSE LET c == IF f.den < 0 THEN -common ELSE common
             IN  Frac(TruncDiv(f.num, c), TruncDiv(f.den, c))

Fraction_hpp(num, den) == normalize_hpp(Frac(num, den))

FractionZ_hpp(num) == Frac(num, 1)

Fraction0_hpp == Frac(0, 1)

reciprocal_hpp(f) == Frac(f.den, f.num)

op_neg_hpp(f) == Frac(-f.num, f.den)

op_eq_hpp(f, rhs) ==
    IF f.den = rhs.den THEN f.num = rhs.num
    ELSE f.num * rhs.den = f.den * rhs.num

op_lt_hpp(f, rhs) ==
    IF f.den = rhs.den THEN f.num < rhs.num
    ELSE f.num * rhs.den < f.den * rhs.num

op_ne_hpp(f, rhs) == ~ op_eq_hpp(f, rhs)
op_gt_hpp(f, rhs) == ~ op_lt_hpp(rhs, f)
op_ge_hpp(f, rhs) == ~ op_lt_hpp(f, rhs)
op_le_hpp(f, rhs) == ~ op_gt_hpp(rhs, f)

\* f *= i and f /= i; both divide by `common` whenever it is not 1.
op_mul_assign_Z_hpp(f, i) ==
    LET common == gcd(i, f.den)
    IN  IF common = 1
        THEN Frac(f.num * i, f.den)
        ELSE Frac(f.num * TruncDiv(i, common), TruncDiv(f.den, common))

op_div_assign_Z_hpp(f, i) ==
    LET common == gcd(f.num, i)
    IN  IF common = 1
        THEN Frac(f.num, f.den * i)
        ELSE Frac(TruncDiv(f.num, common), f.den * TruncDiv(i, common))

----------------------------------------------------------------------------
(* Comparison operators.  `same` says that both operands are one object.   *)

op_eq_Z(f, rhs) ==
    IF f.den = 1 \/ rhs = 0 THEN f.num = rhs ELSE f.num = f.den * rhs

op_eq_ZF(lhs, f) == op_eq_Z(f, lhs)

\* Mutant of op_eq: both numerators are scaled by the same reduced denominator.
op_eq_same_factor(f, rhs, same) ==
    IF same THEN TRUE
    ELSE IF f.den = rhs.den THEN f.num = rhs.num
    ELSE LET common == gcd(f.den, rhs.den)
         IN  IF common = 0
             THEN rhs.den * f.num = f.den * rhs.num
             ELSE LET rr == TruncDiv(rhs.den, common)
                  IN  rr * f.num = rr * rhs.num

op_eq(f, rhs, same) ==
    IF same THEN TRUE
    ELSE IF f.den = rhs.den THEN f.num = rhs.num
    ELSE LET common == gcd(f.den, rhs.den)
         IN  IF common = 0
             THEN rhs.den * f.num = f.den * rhs.num
             ELSE LET l == TruncDiv(f.den, common)
                      rr == TruncDiv(rhs.den, common)
                  IN  rr * f.num = l * rhs.num

op_lt_Z(f, rhs) ==
    IF f.den = 1 \/ rhs = 0 THEN f.num < rhs ELSE f.num < f.den * rhs

op_lt_ZF(lhs, f) ==
    IF f.den = 1 \/ lhs = 0 THEN lhs < f.num ELSE lhs * f.den < f.num

\* Mutant of op_lt: the two reduced denominators are swapped.
op_lt_swapped(f, rhs) ==
    IF f.den = rhs.den THEN f.num < rhs.num
    ELSE LET common == gcd(f.den, rhs.den)
         IN  IF common = 0
             THEN rhs.den * f.num < f.den * rhs.num
             ELSE LET l == TruncDiv(f.den, common)
                      rr == TruncDiv(rhs.den, common)
                  IN  l * f.num < rr * rhs.num

op_lt(f, rhs) ==
    IF f.den = rhs.den THEN f.num < rhs.num
    ELSE LET common == gcd(f.den, rhs.den)
         IN  IF common = 0
             THEN rhs.den * f.num < f.den * rhs.num
             ELSE LET l == TruncDiv(f.den, common)
                      rr == TruncDiv(rhs.den, common)
                  IN  rr * f.num < l * rhs.num

op_ne(f, rhs, same) == ~ op_eq(f, rhs, same)
\* Mutant of op_gt: the negation of < in place of the swap.
op_gt_negated(f, rhs) == ~ op_lt(f, rhs)

op_gt(f, rhs) == op_lt(rhs, f)
op_ge(f, rhs) == ~ op_lt(f, rhs)
op_le(f, rhs) == ~ op_lt(rhs, f)

op_gt_Z(f, rhs) == op_lt_ZF(rhs, f)
op_le_Z(f, rhs) == ~ op_lt_ZF(rhs, f)
op_ge_Z(f, rhs) == ~ op_lt_Z(f, rhs)
op_gt_ZF(lhs, f) == op_lt_Z(f, lhs)
op_le_ZF(lhs, f) == ~ op_lt_Z(f, lhs)
op_ge_ZF(lhs, f) == ~ op_lt_ZF(lhs, f)

----------------------------------------------------------------------------
(* Arithmetic operators *)

\* Mutant of reciprocal: the swap without the sign fix.
reciprocal_no_sign(f) == Frac(f.den, f.num)

reciprocal(f) ==
    LET s == Frac(f.den, f.num)
    IN  IF s.den < 0 THEN Frac(-s.num, -s.den) ELSE s

\* Mutant of op_mul_assign: the second cross pair is not reduced.
op_mul_assign_one_gcd(f, rhs) ==
    LET f1 == Fraction(f.num, rhs.den)
        f2 == Frac(rhs.num, f.den)
    IN  Frac(f1.num * f2.num, f1.den * f2.den)

op_mul_assign(f, rhs) ==
    LET f1 == Fraction(f.num, rhs.den)
        f2 == Fraction(rhs.num, f.den)
    IN  Frac(f1.num * f2.num, f1.den * f2.den)

op_mul(lhs, rhs) == op_mul_assign(lhs, rhs)

op_mul_assign_Z(f, rhs) ==
    LET f2 == Fraction(rhs, f.den)
    IN  Frac(f.num * f2.num, f2.den)

op_mul_Z(lhs, rhs) == op_mul_assign_Z(lhs, rhs)

op_mul_ZF(lhs, rhs) == op_mul_assign_Z(rhs, lhs)

\* Mutant of op_div_assign: the cross pairs of the multiplication.
op_div_assign_as_mul(f, rhs) ==
    LET f1 == Fraction(f.num, rhs.den)
        f2 == Fraction(rhs.num, f.den)
    IN  Frac(f1.num * f2.num, f1.den * f2.den)

op_div_assign(f, rhs) ==
    LET f1 == Fraction(f.num, rhs.num)
        f2 == Fraction(rhs.den, f.den)
    IN  Frac(f1.num * f2.num, f1.den * f2.den)

op_div(lhs, rhs) == op_div_assign(lhs, rhs)

\* Mutant of op_div_assign_Z: the denominator is assigned, not multiplied.
op_div_assign_Z_assigned(f, rhs) ==
    LET f1 == Fraction(f.num, rhs)
    IN  Frac(f1.num, f1.den)

op_div_assign_Z(f, rhs) ==
    LET f1 == Fraction(f.num, rhs)
    IN  Frac(f1.num, f.den * f1.den)

op_div_Z(lhs, rhs) == op_div_assign_Z(lhs, rhs)

op_div_ZF(lhs, rhs) == op_mul_assign_Z(reciprocal(rhs), lhs)

op_neg(f) == Frac(-f.num, f.den)

\* Mutant of op_add: the denominator is the raw product den * rhs.den.
op_add_raw_den(f, rhs) ==
    IF f.den = rhs.den THEN Fraction(f.num + rhs.num, f.den)
    ELSE LET common == gcd(f.den, rhs.den)
         IN  IF common = 0
             THEN Fraction(rhs.den * f.num + f.den * rhs.num, 0)
             ELSE LET l == TruncDiv(f.den, common)
                      rr == TruncDiv(rhs.den, common)
                      d == f.den * rhs.den
                      n == rr * f.num + l * rhs.num
                  IN  Fraction(n, d)

op_add(f, rhs) ==
    IF f.den = rhs.den THEN Fraction(f.num + rhs.num, f.den)
    ELSE LET common == gcd(f.den, rhs.den)
         IN  IF common = 0
             THEN Fraction(rhs.den * f.num + f.den * rhs.num, 0)
             ELSE LET l == TruncDiv(f.den, common)
                      rr == TruncDiv(rhs.den, common)
                      d == f.den * rr
                      n == rr * f.num + l * rhs.num
                  IN  Fraction(n, d)

\* Mutant of op_sub: the operand is not negated.
op_sub_no_neg(f, frac) == op_add(f, frac)

op_sub(f, frac) == op_add(f, op_neg(frac))

op_add_assign(f, rhs) ==
    IF f.den = rhs.den THEN normalize(Frac(f.num + rhs.num, f.den))
    ELSE LET common == gcd(f.den, rhs.den)
         IN  IF common = 0
             THEN LET n == rhs.den * f.num + f.den * rhs.num
                  IN  Frac(IF n > 0 THEN 1 ELSE IF n < 0 THEN -1 ELSE 0, 0)
             ELSE LET l == TruncDiv(f.den, common)
                      rr == TruncDiv(rhs.den, common)
                  IN  normalize(Frac(f.num * rr + l * rhs.num, f.den * rr))

op_sub_assign(f, frac) == op_sub(f, frac)

op_add_assign_Z(f, i) ==
    IF i = 0 THEN f
    ELSE IF f.den = 1 THEN Frac(f.num + i, f.den)
    ELSE normalize(Frac(f.num + f.den * i, f.den))

op_sub_assign_Z(f, i) == op_add_assign_Z(f, -i)

op_add_Z(frac, i) == op_add_assign_Z(frac, i)

op_add_ZF(i, frac) == op_add_assign_Z(frac, i)

op_sub_Z(f, i) == op_add_Z(f, -i)

op_sub_ZF(c, frac) == op_add_ZF(c, op_neg(frac))

----------------------------------------------------------------------------
(* The branch chain operator==, operator<, operator+ and operator+= share: *)
(* equal denominators first, then common == 0, then the gcd-factored path. *)

\* Mutant of den_path: common == 0 is tested before the denominators' equality.
den_path_common_first(f, rhs) ==
    IF gcd(f.den, rhs.den) = 0 THEN "common_zero"
    ELSE IF f.den = rhs.den THEN "equal_den"
    ELSE "factored"

den_path(f, rhs) ==
    IF f.den = rhs.den THEN "equal_den"
    ELSE IF gcd(f.den, rhs.den) = 0 THEN "common_zero"
    ELSE "factored"

\* Mutant of op_add_args: the denominator is the raw product.
op_add_args_raw_den(f, rhs) ==
    IF f.den = rhs.den THEN <<f.num + rhs.num, f.den>>
    ELSE <<rhs.den * f.num + f.den * rhs.num, f.den * rhs.den>>

\* The <<n, d>> operator+ hands to the constructor.
op_add_args(f, rhs) ==
    IF f.den = rhs.den THEN <<f.num + rhs.num, f.den>>
    ELSE LET common == gcd(f.den, rhs.den)
         IN  IF common = 0
             THEN <<rhs.den * f.num + f.den * rhs.num, 0>>
             ELSE LET l == TruncDiv(f.den, common)
                      rr == TruncDiv(rhs.den, common)
                  IN  <<rr * f.num + l * rhs.num, f.den * rr>>

----------------------------------------------------------------------------
(* The divisors each function of part_000 hands to the built-in / and %,   *)
(* its callees' included.  A function that evaluates no division has none. *)

RECURSIVE gcd_recur_divisors(_, _)
gcd_recur_divisors(m, n) ==
    IF n = 0 THEN {} ELSE {n} \cup gcd_recur_divisors(n, TruncRem(m, n))

gcd_divisors(m, n) == IF m = 0 THEN {} ELSE gcd_recur_divisors(m, n)

\* Mutant of normalize_divisors: only common = 1 returns early.
normalize_divisors_no_zero_guard(f) ==
    LET s == IF f.den < 0 THEN Frac(-f.num, -f.den) ELSE f
        common == gcd(s.num, s.den)
    IN  gcd_divisors(s.num, s.den)
            \cup (IF common = 1 THEN {} ELSE {common})

normalize_divisors(f) ==
    LET s == IF f.den < 0 THEN Frac(-f.num, -f.den) ELSE f
        common == gcd(s.num, s.den)
    IN  gcd_divisors(s.num, s.den)
            \cup (IF common = 1 \/ common = 0 THEN {} ELSE {common})

Fraction_divisors(num, den) == normalize_divisors(Frac(num, den))

\* operator== and operator< share the shape of their divisions.
op_eq_divisors(f, rhs, same) ==
    IF same THEN {}
    ELSE IF f.den = rhs.den THEN {}
    ELSE LET common == gcd(f.den, rhs.den)
         IN  gcd_divisors(f.den, rhs.den)
                 \cup (IF common = 0 THEN {} ELSE {common})

op_lt_divisors(f, rhs) ==
    IF f.den = rhs.den THEN {}
    ELSE LET common == gcd(f.den, rhs.den)
         IN  gcd_divisors(f.den, rhs.den)
                 \cup (IF common = 0 THEN {} ELSE {common})

op_mul_assign_divisors(f, rhs) ==
    Fraction_divisors(f.num, rhs.den) \cup Fraction_divisors(rhs.num, f.den)

op_mul_assign_Z_divisors(f, rhs) == Fraction_divisors(rhs, f.den)

op_div_assign_divisors(f, rhs) ==
    Fraction_divisors(f.num, rhs.num) \cup Fraction_divisors(rhs.den, f.den)

op_div_assign_Z_divisors(f, rhs) == Fraction_divisors(f.num, rhs)

op_add_divisors(f, rhs) ==
    IF f.den = rhs.den THEN Fraction_divisors(f.num + rhs.num, f.den)
    ELSE LET common == gcd(f.den, rhs.den)
         IN  gcd_divisors(f.den, rhs.den) \cup
             (IF common = 0
              THEN Fraction_divisors(rhs.den * f.num + f.den * rhs.num, 0)
              ELSE LET l == TruncDiv(f.den, common)
                       rr == TruncDiv(rhs.den, common)
                   IN  {common} \cup
                       Fraction_divisors(rr * f.num + l * rhs.num, f.den * rr))

op_add_assign_divisors(f, rhs) ==
    IF f.den = rhs.den THEN normalize_divisors(Frac(f.num + rhs.num, f.den))
    ELSE LET common == gcd(f.den, rhs.den)
         IN  gcd_divisors(f.den, rhs.den) \cup
             (IF common = 0
              THEN {}
              ELSE LET l == TruncDiv(f.den, common)
                       rr == TruncDiv(rhs.den, common)
                   IN  {common} \cup
                       normalize_divisors(Frac(f.num * rr + l * rhs.num, f.den * rr)))

op_add_assign_Z_divisors(f, i) ==
    IF i = 0 THEN {}
    ELSE IF f.den = 1 THEN {}
    ELSE normalize_divisors(Frac(f.num + f.den * i, f.den))

(* The divisors of the fractions.hpp variant *)

normalize_hpp_divisors(f) ==
    LET common == gcd(f.num, f.den)
    IN  gcd_divisors(f.num, f.den) \cup
            (IF common = 1 \/ common = 0 THEN {}
             ELSE IF f.den < 0 THEN {-common} ELSE {common})

op_mul_assign_Z_hpp_divisors(f, i) ==
    LET common == gcd(i, f.den)
    IN  gcd_divisors(i, f.den) \cup (IF common = 1 THEN {} ELSE {common})

op_div_assign_Z_hpp_divisors(f, i) ==
    LET common == gcd(f.num, i)
    IN  gcd_divisors(f.num, i) \cup (IF common = 1 THEN {} ELSE {common})

----------------------------------------------------------------------------
(* What a statement of the client records besides its results, by the     *)
(* statement's name: f is the object a, g the Fraction operand.            *)

\* The branches operator==, <, + and += take in the statement.
StatementBranches(name, f, g) ==
    CASE name \in {"op_eq", "op_ne", "op_lt", "op_ge", "op_add", "op_add_assign",
                   "add_both"} -> {den_path(f, g)}
      [] name \in {"op_gt", "op_le"} -> {den_path(g, f)}
      [] name \in {"op_sub", "op_sub_assign"} -> {den_path(f, op_neg(g))}
      [] name = "trichotomy" -> {den_path(f, g), den_path(g, f)}
      [] OTHER -> {}

\* The integers the statement computes: a + g's constructor arguments.
StatementIntegers(name, f, g) ==
    CASE name = "op_add" -> op_add_args(f, g)
      [] OTHER -> << >>

----------------------------------------------------------------------------
(* The client *)

\* The operands a statement constructs: Fraction(n, d) for bounded n, d.
Operands == {Fraction(n, d) : n \in Ints, d \in Ints}

SmallOperands == {Fraction(n, d) : n \in SmallInts, d \in SmallInts}

InRange(f) == abs(f.num) <= MaxVal /\ abs(f.den) <= MaxVal

\* A statement may start: the previous one has ended and `a` is within the bounds.
Callable == pc = "ready" /\ InRange(a)

(* A division or remainder by zero is undefined behaviour: the statement
   ends in "fault", returns nothing, and an object it was assigning to holds
   any value. *)
AnyFraction == {Frac(n, d) : n \in Ints, d \in Ints}

\* A statement that assigns `na` to `a`; `divisors` are the divisors of every
\* / and % its operators evaluate.
Assigns(name, na, xx, yy, kk, divisors) ==
    /\ dv' = divisors
    /\ pc' = IF 0 \in divisors THEN "fault" ELSE "returned"
    /\ a' \in IF 0 \in divisors THEN AnyFraction ELSE {na}
    /\ op' = name
    /\ x' = xx
    /\ y' = yy
    /\ z' = Fraction0
    /\ k' = kk
    /\ r' = << >>
    /\ t' = << >>
    /\ br' = StatementBranches(name, xx, yy)
    /\ w' = << >>

\* A statement that leaves `a` alone and returns the Fractions rs and booleans ts.
Returns(name, yy, zz, kk, rs, ts, divisors) ==
    /\ dv' = divisors
    /\ pc' = IF 0 \in divisors THEN "fault" ELSE "returned"
    /\ a' = a
    /\ op' = name
    /\ x' = a
    /\ y' = yy
    /\ z' = zz
    /\ k' = kk
    /\ r' = IF 0 \in divisors THEN << >> ELSE rs
    /\ t' = IF 0 \in divisors THEN << >> ELSE ts
    /\ br' = StatementBranches(name, a, yy)
    /\ w' = StatementIntegers(name, a, yy)

Init ==
    /\ a = Fraction0
    /\ pc = "ready"
    /\ op = "none"
    /\ x = Fraction0
    /\ y = Fraction0
    /\ z = Fraction0
    /\ k = 0
    /\ r = << >>
    /\ t = << >>
    /\ dv = {}
    /\ br = {}
    /\ w = << >>

\* The statement ends: its temporaries are destroyed.
EndStatement ==
    /\ pc = "returned"
    /\ pc' = "ready"
    /\ op' = "none"
    /\ x' = Fraction0
    /\ y' = Fraction0
    /\ z' = Fraction0
    /\ k' = 0
    /\ r' = << >>
    /\ t' = << >>
    /\ dv' = {}
    /\ br' = {}
    /\ w' = << >>
    /\ a' = a

(* a = Fraction(), which is how the client brings an `a` that has grown past
   the bounds back; a = Fraction(n); a = Fraction(n, d) *)
Construct0 ==
    pc = "ready" /\ Assigns("Fraction0", Fraction0, Fraction0, Fraction0, 0,
                            {})

ConstructZ ==
    \E n \in Ints :
        Callable /\ Assigns("FractionZ", FractionZ(n), Frac(n, 1), Fraction0, n,
                            {})

Construct ==
    \E n \in Ints, d \in Ints :
        Callable /\ Assigns("Fraction", Fraction(n, d), Frac(n, d), Fraction0, 0,
                            Fraction_divisors(n, d))

(* In-place operators on a *)
Reciprocal ==
    Callable /\ Assigns("reciprocal", reciprocal(a), a, Fraction0, 0,
                        {})

MulAssign ==
    \E f \in Operands :
        Callable /\ Assigns("op_mul_assign", op_mul_assign(a, f), a, f, 0,
                            op_mul_assign_divisors(a, f))

MulAssignZ ==
    \E i \in Ints :
        Callable /\ Assigns("op_mul_assign_Z", op_mul_assign_Z(a, i), a, Fraction0, i,
                            op_mul_assign_Z_divisors(a, i))

DivAssign ==
    \E f \in Operands :
        Callable /\ Assigns("op_div_assign", op_div_assign(a, f), a, f, 0,
                            op_div_assign_divisors(a, f))

DivAssignZ ==
    \E i \in Ints :
        Callable /\ Assigns("op_div_assign_Z", op_div_assign_Z(a, i), a, Fraction0, i,
                            op_div_assign_Z_divisors(a, i))

AddAssign ==
    \E f \in Operands :
        Callable /\ Assigns("op_add_assign", op_add_assign(a, f), a, f, 0,
                            op_add_assign_divisors(a, f))

SubAssign ==
    \E f \in Operands :
        Callable /\ Assigns("op_sub_assign", op_sub_assign(a, f), a, f, 0,
                            op_add_divisors(a, op_neg(f)))

AddAssignZ ==
    \E i \in Ints :
        Callable /\ Assigns("op_add_assign_Z", op_add_assign_Z(a, i), a, Fraction0, i,
                            op_add_assign_Z_divisors(a, i))

SubAssignZ ==
    \E i \in Ints :
        Callable /\ Assigns("op_sub_assign_Z", op_sub_assign_Z(a, i), a, Fraction0, i,
                            op_add_assign_Z_divisors(a, -i))

(* Expressions returning a new Fraction *)
Neg ==
    Callable /\ Returns("op_neg", Fraction0, Fraction0, 0, <<op_neg(a)>>, << >>,
                        {})

Add ==
    \E f \in Operands :
        Callable /\ Returns("op_add", f, Fraction0, 0, <<op_add(a, f)>>, << >>,
                            op_add_divisors(a, f))

Sub ==
    \E f \in Operands :
        Callable /\ Returns("op_sub", f, Fraction0, 0, <<op_sub(a, f)>>, << >>,
                            op_add_divisors(a, op_neg(f)))

Mul ==
    \E f \in Operands :
        Callable /\ Returns("op_mul", f, Fraction0, 0, <<op_mul(a, f)>>, << >>,
                            op_mul_assign_divisors(a, f))

Div ==
    \E f \in Operands :
        Callable /\ Returns("op_div", f, Fraction0, 0, <<op_div(a, f)>>, << >>,
                            op_div_assign_divisors(a, f))

\* a + i, i + a, a - i, i - a, a * i, i * a, a / i, i / a
ArithZ ==
    \E i \in Ints :
        /\ Callable
        /\ \/ Returns("op_add_Z", Fraction0, Fraction0, i, <<op_add_Z(a, i)>>, << >>,
                      op_add_assign_Z_divisors(a, i))
           \/ Returns("op_add_ZF", Fraction0, Fraction0, i, <<op_add_ZF(i, a)>>, << >>,
                      op_add_assign_Z_divisors(a, i))
           \/ Returns("op_sub_Z", Fraction0, Fraction0, i, <<op_sub_Z(a, i)>>, << >>,
                      op_add_assign_Z_divisors(a, -i))
           \/ Returns("op_sub_ZF", Fraction0, Fraction0, i, <<op_sub_ZF(i, a)>>, << >>,
                      op_add_assign_Z_divisors(op_neg(a), i))
           \/ Returns("op_mul_Z", Fraction0, Fraction0, i, <<op_mul_Z(a, i)>>, << >>,
                      op_mul_assign_Z_divisors(a, i))
           \/ Returns("op_mul_ZF", Fraction0, Fraction0, i, <<op_mul_ZF(i, a)>>, << >>,
                      op_mul_assign_Z_divisors(a, i))
           \/ Returns("op_div_Z", Fraction0, Fraction0, i, <<op_div_Z(a, i)>>, << >>,
                      op_div_assign_Z_divisors(a, i))
           \/ Returns("op_div_ZF", Fraction0, Fraction0, i, <<op_div_ZF(i, a)>>, << >>,
                      op_mul_assign_Z_divisors(reciprocal(a), i))

(* Comparisons *)
Eq ==
    \E f \in Operands :
        Callable /\ Returns("op_eq", f, Fraction0, 0, << >>, <<op_eq(a, f, FALSE)>>,
                            op_eq_divisors(a, f, FALSE))

\* a == a: both operands are the same object
EqSelf ==
    Callable /\ Returns("op_eq_self", a, Fraction0, 0, << >>, <<op_eq(a, a, TRUE)>>,
                        op_eq_divisors(a, a, TRUE))

Lt ==
    \E f \in Operands :
        Callable /\ Returns("op_lt", f, Fraction0, 0, << >>, <<op_lt(a, f)>>,
                            op_lt_divisors(a, f))

\* a != f, a > f, a >= f, a <= f
Derived ==
    \E f \in Operands :
        /\ Callable
        /\ \/ Returns("op_ne", f, Fraction0, 0, << >>, <<op_ne(a, f, FALSE)>>,
                      op_eq_divisors(a, f, FALSE))
           \/ Returns("op_gt", f, Fraction0, 0, << >>, <<op_gt(a, f)>>,
                      op_lt_divisors(f, a))
           \/ Returns("op_ge", f, Fraction0, 0, << >>, <<op_ge(a, f)>>,
                      op_lt_divisors(a, f))
           \/ Returns("op_le", f, Fraction0, 0, << >>, <<op_le(a, f)>>,
                      op_lt_divisors(f, a))

\* comparisons of a with an integer, in both operand orders
CompareZ ==
    \E i \in Ints :
        /\ Callable
        /\ \/ Returns("op_eq_Z", Fraction0, Fraction0, i, << >>, <<op_eq_Z(a, i)>>,
                      {})
           \/ Returns("op_eq_ZF", Fraction0, Fraction0, i, << >>, <<op_eq_ZF(i, a)>>,
                      {})
           \/ Returns("op_lt_Z", Fraction0, Fraction0, i, << >>, <<op_lt_Z(a, i)>>,
                      {})
           \/ Returns("op_lt_ZF", Fraction0, Fraction0, i, << >>, <<op_lt_ZF(i, a)>>,
                      {})
           \/ Returns("op_gt_Z", Fraction0, Fraction0, i, << >>, <<op_gt_Z(a, i)>>,
                      {})
           \/ Returns("op_le_Z", Fraction0, Fraction0, i, << >>, <<op_le_Z(a, i)>>,
                      {})
           \/ Returns("op_ge_Z", Fraction0, Fraction0, i, << >>, <<op_ge_Z(a, i)>>,
                      {})
           \/ Returns("op_gt_ZF", Fraction0, Fraction0, i, << >>, <<op_gt_ZF(i, a)>>,
                      {})
           \/ Returns("op_le_ZF", Fraction0, Fraction0, i, << >>, <<op_le_ZF(i, a)>>,
                      {})
           \/ Returns("op_ge_ZF", Fraction0, Fraction0, i, << >>, <<op_ge_ZF(i, a)>>,
                      {})

(* Statements that evaluate several expressions over the same operands *)

\* a < f; a == f; a > f
Trichotomy ==
    \E f \in Operands :
        Callable /\ Returns("trichotomy", f, Fraction0, 0, << >>,
                            <<op_lt(a, f), op_eq(a, f, FALSE), op_gt(a, f)>>,
                            op_lt_divisors(a, f) \cup op_eq_divisors(a, f, FALSE)
                                \cup op_lt_divisors(f, a))

\* c == c for a copy c of a; a == f; f == a; f == g; a == g
EqLaws ==
    \E f \in Operands, g \in SmallOperands :
        Callable /\ Returns("eq_laws", f, g, 0, << >>,
                            <<op_eq(a, a, FALSE), op_eq(a, f, FALSE), op_eq(f, a, FALSE),
                              op_eq(f, g, FALSE), op_eq(a, g, FALSE)>>,
                            op_eq_divisors(a, a, FALSE) \cup op_eq_divisors(a, f, FALSE)
                                \cup op_eq_divisors(f, a, FALSE) \cup op_eq_divisors(f, g, FALSE)
                                \cup op_eq_divisors(a, g, FALSE))

\* (a + f) - f == a
AddSub ==
    \E f \in Operands :
        Callable /\ Returns("add_sub", f, Fraction0, 0,
                            <<op_add(a, f), op_sub(op_add(a, f), f)>>,
                            <<op_eq(op_sub(op_add(a, f), f), a, FALSE)>>,
                            op_add_divisors(a, f) \cup op_add_divisors(op_add(a, f), op_neg(f))
                                \cup op_eq_divisors(op_sub(op_add(a, f), f), a, FALSE))

\* (a * f) / f == a
MulDiv ==
    \E f \in Operands :
        Callable /\ Returns("mul_div", f, Fraction0, 0,
                            <<op_mul(a, f), op_div(op_mul(a, f), f)>>,
                            <<op_eq(op_div(op_mul(a, f), f), a, FALSE)>>,
                            op_mul_assign_divisors(a, f) \cup op_div_assign_divisors(op_mul(a, f), f)
                                \cup op_eq_divisors(op_div(op_mul(a, f), f), a, FALSE))

\* the same operation with the integer i and with Fraction(i)
Interop ==
    \E i \in Ints :
        /\ Callable
        /\ \/ Returns("interop_eq", FractionZ(i), Fraction0, i, << >>,
                      <<op_eq_Z(a, i), op_eq(a, FractionZ(i), FALSE)>>,
                      op_eq_divisors(a, FractionZ(i), FALSE))
           \/ Returns("interop_lt", FractionZ(i), Fraction0, i, << >>,
                      <<op_lt_Z(a, i), op_lt(a, FractionZ(i))>>,
                      op_lt_divisors(a, FractionZ(i)))
           \/ Returns("interop_lt_ZF", FractionZ(i), Fraction0, i, << >>,
                      <<op_lt_ZF(i, a), op_lt(FractionZ(i), a)>>,
                      op_lt_divisors(FractionZ(i), a))
           \/ Returns("interop_add", FractionZ(i), Fraction0, i,
                      <<op_add_Z(a, i), op_add(a, FractionZ(i))>>, << >>,
                      op_add_assign_Z_divisors(a, i) \cup op_add_divisors(a, FractionZ(i)))
           \/ Returns("interop_sub", FractionZ(i), Fraction0, i,
                      <<op_sub_Z(a, i), op_sub(a, FractionZ(i))>>, << >>,
                      op_add_assign_Z_divisors(a, -i)
                          \cup op_add_divisors(a, op_neg(FractionZ(i))))
           \/ Returns("interop_mul", FractionZ(i), Fraction0, i,
                      <<op_mul_Z(a, i), op_mul(a, FractionZ(i))>>, << >>,
                      op_mul_assign_Z_divisors(a, i)
                          \cup op_mul_assign_divisors(a, FractionZ(i)))
           \/ Returns("interop_div", FractionZ(i), Fraction0, i,
                      <<op_div_Z(a, i), op_div(a, FractionZ(i))>>, << >>,
                      op_div_assign_Z_divisors(a, i)
                          \cup op_div_assign_divisors(a, FractionZ(i)))

\* a / f, and a * g for a copy g of f after g.reciprocal()
DivVsMul ==
    \E f \in Operands :
        Callable /\ Returns("div_vs_mul", f, reciprocal(f), 0,
                            <<op_div(a, f), op_mul(a, reciprocal(f))>>, << >>,
                            op_div_assign_divisors(a, f)
                                \cup op_mul_assign_divisors(a, reciprocal(f)))

\* c.reciprocal(); c.reciprocal() on a copy c of a: c after each call
ReciprocalTwice ==
    Callable /\ Returns("reciprocal_twice", Fraction0, Fraction0, 0,
                        <<reciprocal(a), reciprocal(reciprocal(a))>>, << >>,
                        {})

\* a + f, and c += f on a copy c of a
AddBoth ==
    \E f \in Operands :
        Callable /\ Returns("add_both", f, Fraction0, 0,
                            <<op_add(a, f), op_add_assign(a, f)>>, << >>,
                            op_add_divisors(a, f) \cup op_add_assign_divisors(a, f))

Next ==
    \/ EndStatement
    \/ Construct0 \/ ConstructZ \/ Construct
    \/ Reciprocal
    \/ MulAssign \/ MulAssignZ \/ DivAssign \/ DivAssignZ
    \/ AddAssign \/ SubAssign \/ AddAssignZ \/ SubAssignZ
    \/ Neg \/ Add \/ Sub \/ Mul \/ Div \/ ArithZ
    \/ Eq \/ EqSelf \/ Lt \/ Derived \/ CompareZ
    \/ Trichotomy \/ EqLaws \/ AddSub \/ MulDiv \/ Interop
    \/ DivVsMul \/ ReciprocalTwice \/ AddBoth

Spec == Init /\ [][Next]_vars

----------------------------------------------------------------------------
(* The client of the fractions.hpp variant *)

HppConstruct0 ==
    pc = "ready" /\ Assigns("Fraction0_hpp", Fraction0_hpp, Fraction0, Fraction0, 0,
                            {})

HppConstructZ ==
    \E n \in Ints :
        Callable /\ Assigns("FractionZ_hpp", FractionZ_hpp(n), Frac(n, 1), Fraction0, n,
                            {})

HppConstruct ==
    \E n \in Ints, d \in Ints :
        Callable /\ Assigns("Fraction_hpp", Fraction_hpp(n, d), Frac(n, d), Fraction0, 0,
                            normalize_hpp_divisors(Frac(n, d)))

HppReciprocal ==
    Callable /\ Assigns("reciprocal_hpp", reciprocal_hpp(a), a, Fraction0, 0,
                        {})

HppNeg ==
    Callable /\ Returns("op_neg_hpp", Fraction0, Fraction0, 0, <<op_neg_hpp(a)>>, << >>,
                        {})

HppMulAssignZ ==
    \E i \in Ints :
        Callable /\ Assigns("op_mul_assign_Z_hpp", op_mul_assign_Z_hpp(a, i),
                            a, Fraction0, i,
                            op_mul_assign_Z_hpp_divisors(a, i))

HppDivAssignZ ==
    \E i \in Ints :
        Callable /\ Assigns("op_div_assign_Z_hpp", op_div_assign_Z_hpp(a, i),
                            a, Fraction0, i,
                            op_div_assign_Z_hpp_divisors(a, i))

\* The operands a statement over fractions.hpp constructs.
OperandsHpp == {Fraction_hpp(n, d) : n \in Ints, d \in Ints}

\* a > f; f < a; a <= f; a >= f; a < f; a != f; a == f
HppCompare ==
    \E f \in OperandsHpp :
        Callable /\ Returns("compare_hpp", f, Fraction0, 0, << >>,
                            <<op_gt_hpp(a, f), op_lt_hpp(f, a), op_le_hpp(a, f),
                              op_ge_hpp(a, f), op_lt_hpp(a, f), op_ne_hpp(a, f),
                              op_eq_hpp(a, f)>>,
                            {})

NextHpp ==
    \/ EndStatement
    \/ HppConstruct0 \/ HppConstructZ \/ HppConstruct
    \/ HppReciprocal \/ HppNeg
    \/ HppMulAssignZ \/ HppDivAssignZ \/ HppCompare

SpecHpp == Init /\ [][NextHpp]_vars

----------------------------------------------------------------------------
(* A client of gcd alone *)

GcdInts == -MaxGcd..MaxGcd

\* g = gcd(m, n): w holds m, n and g
GcdCall ==
    \E m \in GcdInts, n \in GcdInts :
        /\ pc = "ready"
        /\ dv' = gcd_divisors(m, n)
        /\ pc' = IF 0 \in gcd_divisors(m, n) THEN "fault" ELSE "returned"
        /\ op' = "gcd"
        /\ w' = IF 0 \in gcd_divisors(m, n) THEN <<m, n>> ELSE <<m, n, gcd(m, n)>>
        /\ UNCHANGED <<a, x, y, z, k, r, t, br>>

NextGcd == EndStatement \/ GcdCall

SpecGcd == Init /\ [][NextGcd]_vars

----------------------------------------------------------------------------
(* Mathematical notions the properties are stated with; none of them uses  *)
(* the program's gcd or normalize.                                         *)

Divides(d, n) == n % d = 0

\* The greatest common divisor of m, n >= 0 (0 when both are 0).
MathGcd(m, n) ==
    IF m = 0 /\ n = 0 THEN 0
    ELSE LET top == IF m > n THEN m ELSE n
             cd == {h \in 1..top : Divides(h, m) /\ Divides(h, n)}
         IN  CHOOSE g \in cd : \A h \in cd : h <= g

\* The canonical-form invariant of the data model.
CanonicalForm(f) ==
    /\ f.den >= 0
    /\ MathGcd(abs(f.num), f.den) \in {0, 1}
    /\ (f.den = 0 => f.num \in {-1, 0, 1})

\* The reduced form of the rational n/d, d > 0.
Reduced(n, d) ==
    LET g == MathGcd(abs(n), d)
    IN  Frac(n \div g, d \div g)

Returned(names) == pc = "returned" /\ op \in names

\* The Fraction a statement produced: a itself for an in-place operator.
Result == IF r = << >> THEN a ELSE r[1]

----------------------------------------------------------------------------
(* Properties *)

\* C1: every Fraction the constructors and operators of part_000 produce (the
\* object a, the operands built by the constructor, every returned Fraction)
\* has den >= 0 and gcd(|num|, den) in {0, 1}; with den = 0 the numerator is
\* -1, 0 or 1.
C1_CanonicalInvariant ==
    /\ CanonicalForm(a)
    /\ CanonicalForm(y)
    /\ CanonicalForm(z)
    /\ \A i \in 1..Len(r) : CanonicalForm(r[i])

\* C1 witness: 3/2 /= 0 has collapsed the numerator 3 to 1 over the denominator 0.
C1_Witness ==
    /\ Returned({"op_div_assign_Z"})
    /\ x = Frac(3, 2) /\ k = 0
    /\ a = Frac(1, 0)

\* C2: fractions.hpp's Fraction(num, den) with den # 0 stores den > 0 and
\* gcd(|num|, den) = 1.
C2_HppCanonical ==
    (Returned({"Fraction_hpp"}) /\ x.den # 0) =>
        (a.den > 0 /\ MathGcd(abs(a.num), a.den) = 1)

\* C3: for operands with non-zero denominators, a + b and a += b are exactly
\* the reduced form of (a.num*b.den + b.num*a.den) / (a.den*b.den).
C3_AddExact ==
    (Returned({"op_add", "op_add_assign"}) /\ x.den # 0 /\ y.den # 0) =>
        Result = Reduced(x.num * y.den + y.num * x.den, x.den * y.den)

\* C3 witness: 1/3 + 1/6 = 1/2, on the gcd-factored path.
C3_Witness ==
    /\ Returned({"op_add"})
    /\ x = Frac(1, 3) /\ y = Frac(1, 6)
    /\ r = <<Frac(1, 2)>>

\* C4: for operands with non-zero denominators, a * b and a *= b are exactly
\* the reduced form of (a.num*b.num) / (a.den*b.den).
C4_MulExact ==
    (Returned({"op_mul", "op_mul_assign"}) /\ x.den # 0 /\ y.den # 0) =>
        Result = Reduced(x.num * y.num, x.den * y.den)

\* C4 witness: 1/2 * 2/3 = 1/3.
C4_Witness ==
    /\ Returned({"op_mul"})
    /\ x = Frac(1, 2) /\ y = Frac(2, 3)
    /\ r = <<Frac(1, 3)>>

\* C5: for operands with non-zero denominators, a == b is the exact
\* cross-multiplication a.num*b.den = b.num*a.den and a < b is
\* a.num*b.den < b.num*a.den.
C5_CompareExact ==
    /\ (Returned({"op_eq"}) /\ x.den # 0 /\ y.den # 0) =>
          (t[1] <=> (x.num * y.den = y.num * x.den))
    /\ (Returned({"op_lt"}) /\ x.den # 0 /\ y.den # 0) =>
          (t[1] <=> (x.num * y.den < y.num * x.den))

\* C5 witness: 1/2 < 2/3 is true.
C5_Witness ==
    /\ Returned({"op_lt"})
    /\ x = Frac(1, 2) /\ y = Frac(2, 3)
    /\ t = <<TRUE>>

\* C6 as stated: operator== is reflexive, symmetric and transitive over every
\* value, zero denominators included.
C6_EqEquivalence ==
    Returned({"eq_laws"}) =>
        /\ t[1]
        /\ (t[2] => t[3])
        /\ ((t[2] /\ t[4]) => t[5])

\* C6 amended: operator== is reflexive and symmetric over every value, and
\* a == b and b == c imply a == c whenever the middle value b is not 0/0.
C6_EqEquivalenceExceptIndeterminate ==
    Returned({"eq_laws"}) =>
        /\ t[1]
        /\ (t[2] => t[3])
        /\ ((t[2] /\ t[4] /\ y # Frac(0, 0)) => t[5])

\* C6 witness: a chain of equal zero-denominator values, 1/0 == 1/0 == 1/0.
C6_Witness ==
    /\ Returned({"eq_laws"})
    /\ x = Frac(1, 0) /\ y = Frac(1, 0) /\ z = Frac(1, 0)
    /\ t = <<TRUE, TRUE, TRUE, TRUE, TRUE>>

\* C7: exactly one of a < b, a == b, a > b is true.
C7_Trichotomy ==
    Returned({"trichotomy"}) =>
        Cardinality({i \in 1..3 : t[i]}) = 1

\* C7 witness: 1/0 against 1/2: only a > b.
C7_Witness ==
    /\ Returned({"trichotomy"})
    /\ x = Frac(1, 0) /\ y = Frac(1, 2)
    /\ t = <<FALSE, FALSE, TRUE>>

\* C8 as stated: (a + b) - b == a for all a, b.
C8_AddSubIdentity ==
    Returned({"add_sub"}) => t[1]

\* C8 amended: (a + b) - b == a unless a and b are the same infinity
\* (a = b = 1/0 or a = b = -1/0); so for all a, b with non-zero denominators.
C8_AddSubIdentityFinite ==
    (Returned({"add_sub"}) /\ ~(x = y /\ x.den = 0 /\ x.num # 0)) => t[1]

\* C8 witness: (1/3 + 1/6) - 1/6 == 1/3.
C8_Witness ==
    /\ Returned({"add_sub"})
    /\ x = Frac(1, 3) /\ y = Frac(1, 6)
    /\ r = <<Frac(1, 2), Frac(1, 3)>>
    /\ t = <<TRUE>>

\* C9 as stated: (a * b) / b == a for all a, b with b.num # 0.
C9_MulDivIdentity ==
    (Returned({"mul_div"}) /\ y.num # 0) => t[1]

\* C9 amended: (a * b) / b == a for all a, b with b.num # 0, unless a and b
\* are both infinities (1/0 or -1/0); so for all b with b.num # 0, b.den # 0.
C9_MulDivIdentityFinite ==
    (Returned({"mul_div"}) /\ y.num # 0
        /\ ~(x.den = 0 /\ x.num # 0 /\ y.den = 0)) => t[1]

\* C9 witness: (1/2 * 2/3) / (2/3) == 1/2.
C9_Witness ==
    /\ Returned({"mul_div"})
    /\ x = Frac(1, 2) /\ y = Frac(2, 3)
    /\ r = <<Frac(1, 3), Frac(1, 2)>>
    /\ t = <<TRUE>>

\* C10: an operation with the integer i gives the same result as the one with
\* Fraction(i): ==, < (both operand orders) the same truth value, + - * / the
\* same (num, den).
C10_IntegerInterop ==
    Returned({"interop_eq", "interop_lt", "interop_lt_ZF", "interop_add",
              "interop_sub", "interop_mul", "interop_div"}) =>
        /\ (Len(t) = 2 => t[1] = t[2])
        /\ (Len(r) = 2 => r[1] = r[2])
        /\ Len(t) + Len(r) = 2

\* C10 witness: 1/2 + 1 and 1/2 + Fraction(1) are both 3/2.
C10_Witness ==
    /\ Returned({"interop_add"})
    /\ x = Frac(1, 2) /\ k = 1
    /\ r = <<Frac(3, 2), Frac(3, 2)>>

\* C11: a / b by operator/= has the same (num, den) as a times the
\* reciprocal() of a copy of b, zero numerators and denominators included.
C11_DivIsMulByReciprocal ==
    Returned({"div_vs_mul"}) => r[1] = r[2]

\* C11 witness: 1/2 divided by -2/3, whose reciprocal -3/2 needs the sign fix.
C11_Witness ==
    /\ Returned({"div_vs_mul"})
    /\ x = Frac(1, 2) /\ y = Frac(-2, 3) /\ z = Frac(-3, 2)
    /\ r = <<Frac(-3, 4), Frac(-3, 4)>>

\* C18 as stated: two calls of reciprocal() restore every canonical value.
C18_ReciprocalInvolution ==
    Returned({"reciprocal_twice"}) => r[2] = x

\* C18 amended: two calls of reciprocal() restore every canonical value other
\* than -1/0, which goes to 0/1 and then to 1/0.
C18_ReciprocalInvolutionExceptNegInf ==
    /\ (Returned({"reciprocal_twice"}) /\ x # Frac(-1, 0)) => r[2] = x
    /\ (Returned({"reciprocal_twice"}) /\ x = Frac(-1, 0)) =>
          r = <<Frac(0, 1), Frac(1, 0)>>

\* C18 witness: -1/2 goes to -2/1 and back.
C18_Witness ==
    /\ Returned({"reciprocal_twice"})
    /\ x = Frac(-1, 2)
    /\ r = <<Frac(-2, 1), Frac(-1, 2)>>


\* C12: no statement over part_000's constructors and operators evaluates an
\* integer / or % with a zero divisor, whatever numerators and denominators
\* (zero included) its operands have; every statement returns.
C12_NoZeroDivisor == pc # "fault" /\ 0 \notin dv

\* C12 witness: 3/2 /= 0 builds Fraction(3, 0), whose only divisor is gcd(3, 0) = 3.
C12_Witness ==
    /\ Returned({"op_div_assign_Z"})
    /\ x = Frac(3, 2) /\ k = 0
    /\ dv = {3}

\* C16: on the gcd-factored path of a + b the denominator handed to the
\* constructor is strictly smaller than a.den * b.den.
C16_DenStrictlySmaller ==
    (Returned({"op_add"}) /\ br = {"factored"}) => w[2] < x.den * y.den

\* C16 amended: on the gcd-factored path the denominator handed to the
\* constructor is a.den * b.den divided by gcd(a.den, b.den); it is strictly
\* smaller than a.den * b.den exactly when that gcd exceeds 1 and neither
\* denominator is 0, and equal to it otherwise.
C16_DenDividedByGcd ==
    (Returned({"op_add"}) /\ br = {"factored"}) =>
        /\ w[2] * MathGcd(x.den, y.den) = x.den * y.den
        /\ w[2] <= x.den * y.den
        /\ w[2] < x.den * y.den
               <=> (MathGcd(x.den, y.den) > 1 /\ x.den # 0 /\ y.den # 0)

\* C16 witness: 1/4 + 1/6 hands <<5, 12>> to the constructor, 12 < 24.
C16_Witness ==
    /\ Returned({"op_add"})
    /\ x = Frac(1, 4) /\ y = Frac(1, 6)
    /\ br = {"factored"}
    /\ w = <<5, 12>>

\* C17: operator==, operator<, operator+ and operator+= never take their
\* common == 0 branch, and a + b and a += b give the same (num, den).
C17_CommonZeroUnreachable ==
    /\ "common_zero" \notin br
    /\ Returned({"add_both"}) => r[1] = r[2]

\* C17 witness: 1/0 + -1/0, both denominators 0, takes the equal-denominator
\* branch in + and in +=, and both give 0/0.
C17_Witness ==
    /\ Returned({"add_both"})
    /\ x = Frac(1, 0) /\ y = Frac(-1, 0)
    /\ br = {"equal_den"}
    /\ r = <<Frac(0, 0), Frac(0, 0)>>

\* C13: in fractions.hpp f *= i and f /= i never evaluate an integer
\* division with a zero divisor and always leave a defined Fraction, for
\* every f the constructors produce and every integer i, i = 0 included.
C13_HppNoZeroDivisor ==
    op \in {"op_mul_assign_Z_hpp", "op_div_assign_Z_hpp"} =>
        (pc # "fault" /\ 0 \notin dv)

\* C14: in fractions.hpp (a > b) = (b < a), (a <= b) = ~(b < a),
\* (a >= b) = ~(a < b) and (a != b) = ~(a == b) for all Fractions a, b.
C14_HppDerivedComparisons ==
    Returned({"compare_hpp"}) =>
        /\ t[1] = t[2]
        /\ t[3] = ~ t[2]
        /\ t[4] = ~ t[5]
        /\ t[6] = ~ t[7]

\* C15: gcd(m, n) returns, for all integers m, n, negative ones included,
\* without dividing by zero: the result is >= 0, divides m and n when it is
\* not 0, every common divisor of m and n divides it, gcd(0, n) = |n|,
\* gcd(m, 0) = |m| and gcd(0, 0) = 0.
C15_GcdCorrect ==
    /\ op = "gcd" => pc = "returned"
    /\ Returned({"gcd"}) =>
           LET m == w[1]
               n == w[2]
               g == w[3]
           IN  /\ 0 \notin dv
               /\ g >= 0
               /\ g # 0 => (Divides(g, m) /\ Divides(g, n))
               /\ \A h \in 1..MaxGcd :
                      (Divides(h, m) /\ Divides(h, n)) => Divides(h, g)
               /\ m = 0 => g = (IF n < 0 THEN -n ELSE n)
               /\ n = 0 => g = (IF m < 0 THEN -m ELSE m)
               /\ (m = 0 /\ n = 0) => g = 0

\* C15 witness: gcd(-4, 6) = 2 through the remainders -4 % 6 = -4 and 6 % -4 = 2.
C15_Witness ==
    /\ Returned({"gcd"})
    /\ w = <<-4, 6, 2>>
    /\ dv = {6, -4, 2}

=============================================================================
